---- MODULE Spec2Model ----
(***************************************************************************)
(* Model of ethcore/src/migrations/v10.rs: the ToV10 column migration      *)
(* (ToV10::migrate) and the account bloom upgrade routine (generate_bloom).*)
(*                                                                         *)
(* One behaviour is one call of ToV10::migrate(source, config, dest, col), *)
(* optionally followed by further direct calls of generate_bloom on the    *)
(* same stores.  One step is one iteration of a loop of the code or one    *)
(* block of straight-line code between two store operations.               *)
(***************************************************************************)
EXTENDS Integers, Sequences, FiniteSets, TLC

\* ------------------------------------------------------------- bounds
\* keys of the migrated column are 1..MaxKeys, in storage order
MaxKeys == 3
\* config.batch_size ranges over 1..MaxBatch
MaxBatch == 2
\* columns are 0..MaxCol
MaxCol == 1
\* a trie traversal yields at most MaxVisits items
MaxVisits == 3
\* number of calls of generate_bloom in one behaviour
MaxRuns == 2
\* scaled bloom parameters: bit space, bits per journalled segment, hashes
NumBits == 8
SegBits == 2
NumHashes == 2
\* scaled width of H256
HashLen == 2

\* ------------------------------------------------------------- constants
COL_STATE == 0

Columns == 0..MaxCol
Keys == 1..MaxKeys
Vals == {10, 11}
AccountKeys == {<<1>>, <<2>>, <<1, 2>>}

\* Option<T> is the set of at most one T
None == {}
Some(x) == {x}

EmptyFn == [k \in {} |-> 10]

\* ------------------------------------------------------------- store
\* an ordered mapping as the set of its <<key, value>> pairs
Pairs(f) == {<<k, f[k]>> : k \in DOMAIN f}

RECURSIVE SortedKeys(_)
SortedKeys(S) ==
    IF S = {} THEN <<>>
    ELSE LET m == CHOOSE x \in S : \A y \in S : x <= y
         IN <<m>> \o SortedKeys(S \ {m})

\* Database::iter(col): None when the store is unavailable, else the
\* column's pairs in storage (key) order
Database_iter(db) ==
    IF db.open
    THEN Some([i \in 1..Cardinality(DOMAIN db.col) |->
                 <<SortedKeys(DOMAIN db.col)[i], db.col[SortedKeys(DOMAIN db.col)[i]]>>])
    ELSE None

\* upsert of a set of pairs into a set of pairs
Put(store, ops) == {p \in store : \A q \in ops : q[1] # p[1]} \cup ops

\* DBTransaction: column-scoped upserts
EmptyTx == [col |-> {}, bloom |-> {}, hash_functions |-> 0]

\* Database::write(tx) when it succeeds: all upserts applied together
Database_write(d, tx) ==
    [col |-> Put(d.col, tx.col),
     bloom |-> Put(d.bloom, tx.bloom),
     hash_functions |-> IF tx.hash_functions # 0 THEN tx.hash_functions
                        ELSE d.hash_functions]

\* ------------------------------------------------------------- Batch
\* Batch::commit(dest): nothing buffered, nothing written; else one
\* transaction with the whole buffer, and the buffer is cleared
Batch_commit(b, d, ok) ==
    IF b = {}
    THEN [batch |-> b, dest |-> d, issued |-> <<>>, ok |-> TRUE]
    ELSE [batch |-> {},
          dest |-> IF ok THEN Database_write(d, [EmptyTx EXCEPT !.col = b]) ELSE d,
          issued |-> <<[kind |-> "copy", tx |-> [EmptyTx EXCEPT !.col = b], ok |-> ok]>>,
          ok |-> ok]

\* Batch::insert(key, value, dest): buffer the pair, flush when the buffer
\* reaches batch_size
Batch_insert(b, kv, d, size, ok) ==
    IF Cardinality(Put(b, {kv})) = size
    THEN Batch_commit(Put(b, {kv}), d, ok)
    ELSE [batch |-> Put(b, {kv}), dest |-> d, issued |-> <<>>, ok |-> TRUE]

\* ------------------------------------------------------------- Bloom
Bloom_new == [bits |-> {}, journal |-> {}]

\* H256::from_slice: the first HashLen bytes, zero padded
H256_from_slice(s) == [i \in 1..HashLen |-> IF i <= Len(s) THEN s[i] ELSE 0]

RECURSIVE WeightedSum(_, _)
WeightedSum(h, n) == IF n = 0 THEN 0 ELSE n * h[n] + WeightedSum(h, n - 1)

\* the bit positions derived from a key: NumHashes double-hashed indices
BloomPositions(h) ==
    {(WeightedSum(h, Len(h)) + i * (1 + h[1])) % NumBits : i \in 0..(NumHashes - 1)}

\* Bloom::set: set the key's bits, mark their segments dirty
Bloom_set(b, h) ==
    [bits |-> b.bits \cup BloomPositions(h),
     journal |-> b.journal \cup {p \div SegBits : p \in BloomPositions(h)}]

\* Bloom::check: every bit of the key is set
Bloom_check(bits, h) == BloomPositions(h) \subseteq bits

\* the bits of one segment
SegmentBits(bits, i) == {p \in bits : p \div SegBits = i}

NoJournal == [hash_functions |-> 0, entries |-> {}]

\* Bloom::drain_journal: the dirty segments with their bits
Bloom_drain_journal(b) ==
    [hash_functions |-> NumHashes,
     entries |-> {<<i, SegmentBits(b.bits, i)>> : i \in b.journal}]

\* StateDB::commit_bloom: the hash count and every journalled segment are
\* put into one transaction
StateDB_commit_bloom(tx, journal) ==
    [tx EXCEPT !.bloom = Put(tx.bloom, journal.entries),
               !.hash_functions = journal.hash_functions]

\* ------------------------------------------------------------- state
VARIABLES
    source,         \* the source store (Arc<Database>)
    dest,           \* the destination store
    col,            \* migrate's col argument
    config,         \* config.batch_size
    progress,       \* self.progress: number of ticks
    batch,          \* the Batch's buffered pairs
    idx,            \* position of migrate's loop in source.iter(col)
    pc,             \* position in the code
    result,         \* "Running", "Ok", an Error variant, or "Panic"
    scan,           \* items the trie iterator yields in this traversal
    tpos,           \* number of items consumed from the trie iterator
    bloom,          \* the Bloom of generate_bloom
    bloom_journal,  \* generate_bloom's drained journal
    runs,           \* calls of generate_bloom so far
    prev_journal,   \* journal drained by the previous call of generate_bloom
    prev_bits,      \* bits of the filter built by the previous call
    visited,        \* account keys passed to bloom.set in this call
    state_root,     \* generate_bloom's state_root: "unset", "root" or "garbage"
    failure,        \* the operation that failed in this behaviour, or "none"
    dest0,          \* the destination store as it was handed to migrate
    writes          \* every transaction issued against dest, in order

vars == <<source, dest, col, config, progress, batch, idx, pc, result, scan,
          tpos, bloom, bloom_journal, runs, prev_journal, prev_bits, visited,
          state_root, failure, dest0, writes>>

copyVars == <<progress, batch, idx>>
bloomVars == <<scan, tpos, bloom, bloom_journal, visited, state_root>>
histVars == <<runs, prev_journal, prev_bits, dest0>>

Errors == {"Store", "Custom: Cannot open trie", "MigrationImpossible",
           "Custom: Failed to commit bloom"}

IsErr(r) == r \in Errors

\* ------------------------------------------------------------- Init
Tries ==
    {[state |-> s, leaves |-> {}] : s \in {"missing", "iter_err"}}
    \cup {[state |-> s, leaves |-> L] : s \in {"ok", "corrupt"}, L \in SUBSET AccountKeys}

NoTrie == [state |-> "missing", leaves |-> {}]

\* what generate_bloom can read: the value under b"best", the header stored
\* under that hash, the trie stored under that header's state root
BloomSources ==
    {[best |-> None, header |-> None, trie |-> NoTrie],
     [best |-> Some(1), header |-> None, trie |-> NoTrie],
     [best |-> Some(1), header |-> Some([valid |-> FALSE]), trie |-> NoTrie]}
    \cup {[best |-> Some(1), header |-> Some([valid |-> TRUE]), trie |-> t] : t \in Tries}

ColumnContents == UNION {[D -> Vals] : D \in SUBSET Keys}

\* an unavailable store still holds its column, but reads find nothing
Sources ==
    {[open |-> TRUE, col |-> f, best |-> s.best, header |-> s.header, trie |-> s.trie] :
        f \in ColumnContents, s \in BloomSources}
    \cup {[open |-> FALSE, col |-> f, best |-> None, header |-> None, trie |-> NoTrie] :
        f \in ColumnContents}

FreshDest == [col |-> {}, bloom |-> {}, hash_functions |-> 0]

\* a destination that was populated before: stale pairs and a stale bloom
UsedDest ==
    [col |-> {<<0, 10>>, <<1, 11>>},
     bloom |-> {<<0, SegmentBits(0..(NumBits - 1), 0)>>,
                <<(NumBits - 1) \div SegBits, {NumBits - 1}>>},
     hash_functions |-> NumHashes]

Init ==
    /\ col \in Columns
    /\ source \in {s \in Sources : col # COL_STATE => s.best = None}
    /\ dest \in {FreshDest, UsedDest}
    /\ config \in 1..MaxBatch
    /\ progress = 0
    /\ batch = {}
    /\ idx = 0
    /\ pc = "copy"
    /\ result = "Running"
    /\ scan = <<>>
    /\ tpos = 0
    /\ bloom = Bloom_new
    /\ bloom_journal = NoJournal
    /\ runs = 0
    /\ prev_journal = NoJournal
    /\ prev_bits = {}
    /\ visited = {}
    /\ state_root = "unset"
    /\ failure = "none"
    /\ dest0 = dest
    /\ writes = <<>>

\* ------------------------------------------------------------- migrate
\* source.iter(col).into_iter().flat_map(|inner| inner): the items of the
\* iterator, and no item when there is no iterator
MigrateItems(s) ==
    IF Database_iter(s) = None THEN <<>>
    ELSE CHOOSE q \in Database_iter(s) : TRUE

\* mutant of InsertArgs: the key's bytes are passed for the value too
InsertArgs_KeyForValue(item) == <<item[1], item[1]>>

\* (key.into_vec(), value.into_vec()): the pair handed to batch.insert
InsertArgs(item) == <<item[1], item[2]>>

\* the end of the call with Ok(())
ReturnOk ==
    /\ pc' = "done"
    /\ result' = "Ok"
    /\ failure' = failure

\* the end of the call with Err(err), because operation op failed
ReturnErr(op, err) ==
    /\ pc' = "done"
    /\ result' = err
    /\ failure' = IF failure = "none" THEN op ELSE failure

\* the call goes on at position p
Goto(p) ==
    /\ pc' = p
    /\ result' = result
    /\ failure' = failure

\* mutant of Insert: the entry is moved, not copied: it is deleted from the
\* source once it is buffered
Insert_MovesEntries ==
    /\ pc = "copy"
    /\ Len(MigrateItems(source)) > 0
    /\ \E ok \in BOOLEAN :
         LET item == MigrateItems(source)[1]
             r == Batch_insert(batch, InsertArgs(item), dest, config, ok)
         IN /\ progress' = progress + 1
            /\ idx' = 0
            /\ source' = [source EXCEPT
                            !.col = [k \in DOMAIN source.col \ {item[1]} |-> source.col[k]]]
            /\ batch' = r.batch
            /\ dest' = r.dest
            /\ writes' = writes \o r.issued
            /\ IF r.ok THEN Goto("copy") ELSE ReturnErr("flush", "Store")
    /\ UNCHANGED <<col, config, bloomVars, histVars>>

\* mutant of Insert: the accumulator flushes one entry too late
Insert_WrongThreshold ==
    /\ pc = "copy"
    /\ idx < Len(MigrateItems(source))
    /\ \E ok \in BOOLEAN :
         LET r == Batch_insert(batch, InsertArgs(MigrateItems(source)[idx + 1]),
                               dest, config + 1, ok)
         IN /\ progress' = progress + 1
            /\ idx' = idx + 1
            /\ batch' = r.batch
            /\ dest' = r.dest
            /\ writes' = writes \o r.issued
            /\ IF r.ok THEN Goto("copy") ELSE ReturnErr("flush", "Store")
    /\ UNCHANGED <<source, col, config, bloomVars, histVars>>

\* mutant of Insert: the error of batch.insert is dropped and the loop goes on
Insert_IgnoresError ==
    /\ pc = "copy"
    /\ idx < Len(MigrateItems(source))
    /\ \E ok \in BOOLEAN :
         LET r == Batch_insert(batch, InsertArgs(MigrateItems(source)[idx + 1]),
                               dest, config, ok)
         IN /\ progress' = progress + 1
            /\ idx' = idx + 1
            /\ batch' = r.batch
            /\ dest' = r.dest
            /\ writes' = writes \o r.issued
            /\ Goto("copy")
    /\ UNCHANGED <<source, col, config, bloomVars, histVars>>

\* one iteration of migrate's loop: progress.tick(), batch.insert(..)?
Insert ==
    /\ pc = "copy"
    /\ idx < Len(MigrateItems(source))
    /\ \E ok \in BOOLEAN :
         LET r == Batch_insert(batch, InsertArgs(MigrateItems(source)[idx + 1]),
                               dest, config, ok)
         IN /\ progress' = progress + 1
            /\ idx' = idx + 1
            /\ batch' = r.batch
            /\ dest' = r.dest
            /\ writes' = writes \o r.issued
            /\ IF r.ok THEN Goto("copy") ELSE ReturnErr("flush", "Store")
    /\ UNCHANGED <<source, col, config, bloomVars, histVars>>

\* mutant of Commit: the final batch.commit(dest) is left out
Commit_NoFinalFlush ==
    /\ pc = "copy"
    /\ idx = Len(MigrateItems(source))
    /\ IF col = COL_STATE
       THEN Goto("head") /\ runs' = runs + 1
       ELSE ReturnOk /\ runs' = runs
    /\ UNCHANGED <<source, dest, col, config, copyVars, bloomVars,
                   prev_journal, prev_bits, dest0, writes>>

\* mutant of Commit: generate_bloom is called whatever the column is
Commit_HookAnyColumn ==
    /\ pc = "copy"
    /\ idx = Len(MigrateItems(source))
    /\ \E ok \in BOOLEAN :
         LET r == Batch_commit(batch, dest, ok)
         IN /\ batch' = r.batch
            /\ dest' = r.dest
            /\ writes' = writes \o r.issued
            /\ IF ~r.ok THEN ReturnErr("commit", "Store") /\ runs' = runs
               ELSE Goto("head") /\ runs' = runs + 1
    /\ UNCHANGED <<source, col, config, progress, idx, bloomVars,
                   prev_journal, prev_bits, dest0>>

\* after the loop: batch.commit(dest)?, then generate_bloom for COL_STATE
Commit ==
    /\ pc = "copy"
    /\ idx = Len(MigrateItems(source))
    /\ \E ok \in BOOLEAN :
         LET r == Batch_commit(batch, dest, ok)
         IN /\ batch' = r.batch
            /\ dest' = r.dest
            /\ writes' = writes \o r.issued
            /\ IF ~r.ok THEN ReturnErr("commit", "Store") /\ runs' = runs
               ELSE IF col = COL_STATE
                    THEN Goto("head") /\ runs' = runs + 1
                    ELSE ReturnOk /\ runs' = runs
    /\ UNCHANGED <<source, col, config, progress, idx, bloomVars,
                   prev_journal, prev_bits, dest0>>

\* ------------------------------------------------------------- generate_bloom
\* mutant of LookupHead: with no best block the routine goes on and commits
\* the journal of an empty filter
LookupHead_CommitsEmpty ==
    /\ pc = "head"
    /\ \E io \in BOOLEAN :
         IF ~io THEN ReturnErr("read", "Store") /\ UNCHANGED <<scan, tpos, bloom>>
         ELSE IF source.best = None
              THEN Goto("scan") /\ scan' = <<>> /\ tpos' = 0 /\ bloom' = Bloom_new
         ELSE Goto("header") /\ UNCHANGED <<scan, tpos, bloom>>
    /\ UNCHANGED <<source, dest, col, config, copyVars, bloom_journal, visited,
                   state_root, histVars, writes>>

\* source.get(COL_EXTRA, b"best")?
LookupHead ==
    /\ pc = "head"
    /\ \E io \in BOOLEAN :
         IF ~io THEN ReturnErr("read", "Store")
         ELSE IF source.best = None THEN ReturnOk
         ELSE Goto("header")
    /\ UNCHANGED <<source, dest, col, config, copyVars, bloomVars, histVars, writes>>

\* mutant of LookupHeader: a missing header is taken for a header whose
\* state root names no node
LookupHeader_NoneAsRoot ==
    /\ pc = "header"
    /\ \E io \in BOOLEAN :
         IF ~io THEN ReturnErr("read", "Store") /\ state_root' = state_root
         ELSE IF source.header = None THEN Goto("open") /\ state_root' = "garbage"
         ELSE IF \A h \in source.header : h.valid
              THEN Goto("open") /\ state_root' = "root"
         ELSE ReturnErr("decode", "Panic") /\ state_root' = state_root
    /\ UNCHANGED <<source, dest, col, config, copyVars, scan, tpos, bloom,
                   bloom_journal, visited, histVars, writes>>

\* source.get(COL_HEADERS, &best_block_hash)?, HeaderView::state_root():
\* the view has no error path; on bytes that are no header it panics or
\* yields a root that names no node
LookupHeader ==
    /\ pc = "header"
    /\ \E io \in BOOLEAN, decode \in {"panic", "garbage"} :
         IF ~io THEN ReturnErr("read", "Store") /\ state_root' = state_root
         ELSE IF source.header = None THEN ReturnOk /\ state_root' = state_root
         ELSE IF \A h \in source.header : h.valid
              THEN Goto("open") /\ state_root' = "root"
         ELSE IF decode = "panic"
              THEN ReturnErr("decode", "Panic") /\ state_root' = state_root
              ELSE /\ pc' = "open"
                   /\ result' = result
                   /\ failure' = "decode"
                   /\ state_root' = "garbage"
    /\ UNCHANGED <<source, dest, col, config, copyVars, scan, tpos, bloom,
                   bloom_journal, visited, histVars, writes>>

SeqsUpTo(S, n) == UNION {[1..m -> S] : m \in 0..n}
Range(s) == {s[i] : i \in DOMAIN s}

Leaf(k) == [ok |-> TRUE, key |-> k]
BadItem == [ok |-> FALSE, key |-> <<>>]

\* the sequences a traversal of the trie can yield: every leaf when the
\* nodes are sound, some leaves and then an error when a node is corrupt
Traversals(t) ==
    IF t.state = "ok"
    THEN {[i \in DOMAIN s |-> Leaf(s[i])] :
            s \in {q \in SeqsUpTo(t.leaves, MaxVisits) : Range(q) = t.leaves}}
    ELSE {[i \in DOMAIN s |-> Leaf(s[i])] \o <<BadItem>> :
            s \in SeqsUpTo(t.leaves, MaxVisits - 1)}

\* the trie the node store holds under state_root
TrieAt(s, root) == IF root = "root" THEN s.trie ELSE NoTrie

\* mutant of OpenTrie: a state root with no node is taken for an empty trie
OpenTrie_MissingAsEmpty ==
    /\ pc = "open"
    /\ IF TrieAt(source, state_root).state = "missing"
       THEN scan' = <<>> /\ tpos' = 0 /\ Goto("scan")
       ELSE IF TrieAt(source, state_root).state = "iter_err"
       THEN ReturnErr("iter", "MigrationImpossible") /\ UNCHANGED <<scan, tpos>>
       ELSE /\ \E s \in Traversals(TrieAt(source, state_root)) : scan' = s
            /\ tpos' = 0
            /\ Goto("scan")
    /\ bloom' = Bloom_new
    /\ UNCHANGED <<source, dest, col, config, copyVars, bloom_journal, visited,
                   state_root, histVars, writes>>

\* mutant of OpenTrie: the filter starts from the bloom the destination holds
OpenTrie_LoadsStoredBloom ==
    /\ pc = "open"
    /\ IF TrieAt(source, state_root).state = "missing"
       THEN ReturnErr("open", "Custom: Cannot open trie") /\ UNCHANGED <<scan, tpos>>
       ELSE IF TrieAt(source, state_root).state = "iter_err"
       THEN ReturnErr("iter", "MigrationImpossible") /\ UNCHANGED <<scan, tpos>>
       ELSE /\ \E s \in Traversals(TrieAt(source, state_root)) : scan' = s
            /\ tpos' = 0
            /\ Goto("scan")
    /\ bloom' = [bits |-> UNION {e[2] : e \in dest.bloom}, journal |-> {}]
    /\ UNCHANGED <<source, dest, col, config, copyVars, bloom_journal, visited,
                   state_root, histVars, writes>>

\* Bloom::new, journaldb::new, TrieDB::new(..)?, account_trie.iter()?
OpenTrie ==
    /\ pc = "open"
    /\ IF TrieAt(source, state_root).state = "missing"
       THEN ReturnErr("open", "Custom: Cannot open trie") /\ UNCHANGED <<scan, tpos>>
       ELSE IF TrieAt(source, state_root).state = "iter_err"
       THEN ReturnErr("iter", "MigrationImpossible") /\ UNCHANGED <<scan, tpos>>
       ELSE /\ \E s \in Traversals(TrieAt(source, state_root)) : scan' = s
            /\ tpos' = 0
            /\ Goto("scan")
    /\ bloom' = Bloom_new
    /\ UNCHANGED <<source, dest, col, config, copyVars, bloom_journal, visited,
                   state_root, histVars, writes>>

\* mutant of ScanStep: only the first key of the traversal is set
ScanStep_FirstOnly(b, item) ==
    IF b.bits = {} THEN Bloom_set(b, H256_from_slice(item.key)) ELSE b

\* mutant of ScanStep: the key's bits are flipped instead of set
ScanStep_Toggle(b, item) ==
    [bits |-> (b.bits \ BloomPositions(H256_from_slice(item.key)))
                \cup (BloomPositions(H256_from_slice(item.key)) \ b.bits),
     journal |-> b.journal
                   \cup {p \div SegBits : p \in BloomPositions(H256_from_slice(item.key))}]

\* the body of the loop over the trie's items, for an item that is no error
ScanStep(b, item) == Bloom_set(b, H256_from_slice(item.key))

\* mutant of Visit: an item that is an error ends the loop, not the call
Visit_StopsAtError ==
    /\ pc = "scan"
    /\ tpos < Len(scan)
    /\ IF scan[tpos + 1].ok
       THEN /\ bloom' = ScanStep(bloom, scan[tpos + 1])
            /\ visited' = visited \cup {scan[tpos + 1].key}
            /\ tpos' = tpos + 1
            /\ scan' = scan
            /\ Goto("scan")
       ELSE /\ pc' = "scan"
            /\ result' = result
            /\ failure' = "item"
            /\ scan' = SubSeq(scan, 1, tpos)
            /\ UNCHANGED <<bloom, visited, tpos>>
    /\ UNCHANGED <<source, dest, col, config, copyVars, bloom_journal,
                   state_root, histVars, writes>>

\* one iteration of the loop over account_trie.iter()
Visit ==
    /\ pc = "scan"
    /\ tpos < Len(scan)
    /\ IF scan[tpos + 1].ok
       THEN /\ bloom' = ScanStep(bloom, scan[tpos + 1])
            /\ visited' = visited \cup {scan[tpos + 1].key}
            /\ tpos' = tpos + 1
            /\ scan' = scan
            /\ Goto("scan")
       ELSE /\ ReturnErr("item", "MigrationImpossible")
            /\ scan' = <<>>
            /\ UNCHANGED <<bloom, visited, tpos>>
    /\ UNCHANGED <<source, dest, col, config, copyVars, bloom_journal,
                   state_root, histVars, writes>>

\* mutant of CommitBloom: the lowest journalled segment is written in a
\* transaction of its own, the rest in a second one
CommitBloom_PerSegment ==
    /\ pc = "scan"
    /\ tpos = Len(scan)
    /\ bloom_journal' = Bloom_drain_journal(bloom)
    /\ bloom' = [bloom EXCEPT !.journal = {}]
    /\ scan' = <<>>
    /\ \E committed \in BOOLEAN, ok \in BOOLEAN, ok2 \in BOOLEAN :
         IF ~committed
         THEN /\ ReturnErr("bloom_commit", "Custom: Failed to commit bloom")
              /\ UNCHANGED <<dest, writes>>
         ELSE LET j == Bloom_drain_journal(bloom)
                  first == {e \in j.entries : \A f \in j.entries : e[1] <= f[1]}
                  tx1 == StateDB_commit_bloom(EmptyTx, [j EXCEPT !.entries = first])
                  tx2 == StateDB_commit_bloom(EmptyTx,
                                              [j EXCEPT !.entries = j.entries \ first])
                  d1 == IF ok THEN Database_write(dest, tx1) ELSE dest
              IN IF ~ok \/ j.entries = first
                 THEN /\ writes' = Append(writes, [kind |-> "bloom", tx |-> tx1, ok |-> ok])
                      /\ dest' = d1
                      /\ IF ok THEN ReturnOk ELSE ReturnErr("bloom_write", "Store")
                 ELSE /\ writes' = writes \o <<[kind |-> "bloom", tx |-> tx1, ok |-> TRUE],
                                                [kind |-> "bloom", tx |-> tx2, ok |-> ok2]>>
                      /\ dest' = IF ok2 THEN Database_write(d1, tx2) ELSE d1
                      /\ IF ok2 THEN ReturnOk ELSE ReturnErr("bloom_write", "Store")
    /\ UNCHANGED <<source, col, config, copyVars, tpos, visited, state_root, histVars>>

\* after the loop: bloom.drain_journal(), StateDB::commit_bloom(..)?,
\* dest.write(batch)?
CommitBloom ==
    /\ pc = "scan"
    /\ tpos = Len(scan)
    /\ bloom_journal' = Bloom_drain_journal(bloom)
    /\ bloom' = [bloom EXCEPT !.journal = {}]
    /\ scan' = <<>>
    /\ \E committed \in BOOLEAN, ok \in BOOLEAN :
         IF ~committed
         THEN /\ ReturnErr("bloom_commit", "Custom: Failed to commit bloom")
              /\ UNCHANGED <<dest, writes>>
         ELSE LET tx == StateDB_commit_bloom(EmptyTx, Bloom_drain_journal(bloom))
              IN /\ writes' = Append(writes, [kind |-> "bloom", tx |-> tx, ok |-> ok])
                 /\ dest' = IF ok THEN Database_write(dest, tx) ELSE dest
                 /\ IF ok THEN ReturnOk ELSE ReturnErr("bloom_write", "Store")
    /\ UNCHANGED <<source, col, config, copyVars, tpos, visited, state_root, histVars>>

\* a further call of generate_bloom(source, dest) on the same stores
Rerun ==
    /\ pc = "done"
    /\ result = "Ok"
    /\ col = COL_STATE
    /\ runs < MaxRuns
    /\ runs' = runs + 1
    /\ prev_journal' = bloom_journal
    /\ prev_bits' = bloom.bits
    /\ pc' = "head"
    /\ result' = "Running"
    /\ failure' = failure
    /\ bloom' = Bloom_new
    /\ bloom_journal' = NoJournal
    /\ visited' = {}
    /\ tpos' = 0
    /\ state_root' = "unset"
    /\ UNCHANGED <<source, dest, col, config, copyVars, scan, dest0, writes>>

Next ==
    \/ Insert
    \/ Commit
    \/ LookupHead
    \/ LookupHeader
    \/ OpenTrie
    \/ Visit
    \/ CommitBloom
    \/ Rerun

Spec == Init /\ [][Next]_vars

\* a call runs on: a step that can be taken is taken
FairSpec == Spec /\ WF_vars(Next)

TypeOK ==
    /\ pc \in {"copy", "head", "header", "open", "scan", "done"}
    /\ result \in {"Running", "Ok", "Panic"} \cup Errors
    /\ (pc = "done") = (result # "Running")

\* ------------------------------------------------------------- properties
\* the transactions generate_bloom issued
BloomWrites == {i \in DOMAIN writes : writes[i].kind = "bloom"}

\* the destination's bloom is what it was before migrate was called
BloomUntouched ==
    /\ BloomWrites = {}
    /\ dest.bloom = dest0.bloom
    /\ dest.hash_functions = dest0.hash_functions

C2_EmptyStoreNoop ==
    (runs >= 1 /\ source.best = None /\ failure # "read")
        => /\ pc = "done" => result = "Ok"
           /\ pc \in {"head", "done"}
           /\ BloomUntouched
           /\ dest.col = Put(dest0.col, Range(MigrateItems(source)))

C2_Witness ==
    /\ runs >= 1 /\ source.best = None /\ pc = "done" /\ result = "Ok"
    /\ source.open /\ Cardinality(DOMAIN source.col) >= 2

\* C3 (missing-header no-op): with a value under b"best" and no header under
\* that hash, a call of generate_bloom whose reads succeed returns Ok and
\* writes no bloom journal.
C3_MissingHeaderNoop ==
    (runs >= 1 /\ source.best # None /\ source.header = None /\ failure # "read")
        => /\ pc = "done" => result = "Ok"
           /\ pc \in {"head", "header", "done"}
           /\ BloomUntouched

C3_Witness ==
    /\ runs >= 1 /\ source.best # None /\ source.header = None
    /\ pc = "done" /\ result = "Ok"

\* the bits a journal or the destination's bloom column holds
EntryBits(entries) == UNION {e[2] : e \in entries}

\* C4 (membership completeness): after generate_bloom has returned Ok for a
\* head whose header and trie exist, every bit position derived from every
\* leaf key of the trie is set in the filter, in the journal that was
\* written and in the destination's bloom.
C4_MembershipCompleteness ==
    (pc = "done" /\ result = "Ok" /\ state_root = "root")
        => \A K \in source.trie.leaves :
             /\ Bloom_check(bloom.bits, H256_from_slice(K))
             /\ Bloom_check(EntryBits(bloom_journal.entries), H256_from_slice(K))
             /\ Bloom_check(EntryBits(writes[Len(writes)].tx.bloom), H256_from_slice(K))
             /\ Bloom_check(EntryBits(dest.bloom), H256_from_slice(K))

C4_Witness ==
    /\ pc = "done" /\ result = "Ok" /\ state_root = "root"
    /\ source.trie.leaves = AccountKeys
    /\ dest0 = FreshDest

\* C5 (idempotent, order-independent rebuild): a second call of
\* generate_bloom on the same source, whatever order it visits the leaves
\* in and however often it visits a key, ends with the same bits set and
\* the same drained journal as the call before it.
C5_IdempotentRebuild ==
    (runs >= 2 /\ pc = "done" /\ result = "Ok")
        => /\ bloom_journal = prev_journal
           /\ bloom.bits = prev_bits

C5_Witness ==
    /\ runs >= 2 /\ pc = "done" /\ result = "Ok"
    /\ Cardinality(visited) >= 2
    /\ tpos > Cardinality(visited)
    /\ prev_journal.entries # {}
    /\ bloom_journal = prev_journal

\* the transactions the accumulator issued
CopyWrites == {i \in DOMAIN writes : writes[i].kind = "copy"}

Ceil(n, t) == (n + t - 1) \div t

\* the loop and the final commit of migrate have ended without an error
CopyDone == pc # "copy" /\ failure \notin {"flush", "commit"}

TraversalFails ==
    /\ source.best # None
    /\ source.header # None
    /\ source.trie.state \in {"iter_err", "corrupt"}
    /\ state_root = "root"
    /\ pc # "open"

\* C7 (traversal failure): when opening the trie's iterator or an item it
\* yields is an error, generate_bloom ends with MigrationImpossible and no
\* bloom journal, not even one of the leaves visited so far, is written.
C7_TraversalFailure ==
    TraversalFails
        => /\ pc \in {"scan", "done"}
           /\ pc = "done" => result = "MigrationImpossible"
           /\ BloomUntouched

C7_Witness ==
    /\ TraversalFails
    /\ failure = "item"
    /\ Cardinality(visited) >= 2
    /\ bloom.bits # {}
    /\ result = "MigrationImpossible"

\* generate_bloom has found the head and a header, and has tried to open
\* the trie at a state root that has no node
TrieOpenFailed ==
    /\ source.best # None
    /\ source.header # None
    /\ source.trie.state = "missing"
    /\ state_root = "root"
    /\ pc # "open"

\* C8 as stated (trie-open failure): a state root with no node makes
\* generate_bloom fail with an error of the MigrationImpossible kind, and
\* nothing is written.
C8_Original ==
    TrieOpenFailed
        => /\ pc = "done"
           /\ result = "MigrationImpossible"
           /\ BloomUntouched

\* C8 as amended: a state root with no node makes generate_bloom fail, not
\* succeed as a no-op; the error is Error::Custom("Cannot open trie: .."),
\* not MigrationImpossible, and generate_bloom writes nothing.
C8_TrieOpenFailure ==
    TrieOpenFailed
        => /\ pc = "done"
           /\ result = "Custom: Cannot open trie"
           /\ BloomUntouched

C8_Witness ==
    /\ TrieOpenFailed
    /\ failure = "open"
    /\ result = "Custom: Cannot open trie"
    /\ Len(writes) >= 2

\* C9 (iteration failure): when the source column cannot be iterated,
\* migrate returns an error and never Ok.
C9_IterationFailurePropagates ==
    (pc = "done" /\ Database_iter(source) = None) => IsErr(result)

\* C10 (no silent success): migrate returns Ok only if nothing failed, and
\* every failure of a source read, a destination write, header decoding,
\* trie open, trie traversal or bloom commit makes it return Err.
C10_FailureNeverOk ==
    pc = "done"
        => /\ result = "Ok" => (failure = "none" /\ Database_iter(source) # None)
           /\ (failure # "none" \/ Database_iter(source) = None) => IsErr(result)

\* generate_bloom has read header bytes under the head hash that are no
\* header, and has ended
MalformedHeaderSeen ==
    /\ runs >= 1
    /\ source.best # None
    /\ source.header # None
    /\ \E h \in source.header : ~h.valid
    /\ failure # "read"
    /\ pc = "done"

\* C11 (malformed header): when the bytes stored under the head hash cannot
\* be decoded into a header, generate_bloom ends with an Err of the
\* MigrationImpossible kind and writes no bloom journal.
C11_MalformedHeader ==
    MalformedHeaderSeen
        => /\ result = "MigrationImpossible"
           /\ BloomUntouched

\* C12 (bloom already present): a call of generate_bloom on a destination
\* that already holds the account bloom does nothing: a bloom transaction
\* is only ever issued against a destination that holds no bloom yet.
C12_NoopWhenBloomPresent ==
    \A i \in BloomWrites :
        /\ dest0.hash_functions = 0
        /\ \A j \in BloomWrites : j < i => ~writes[j].ok

\* the operations of generate_bloom that can end it with an Err
BloomFailures == {"read", "open", "iter", "item", "bloom_commit", "bloom_write"}

\* C13 (ordering and scope of the rebuild hook): migrate calls
\* generate_bloom if and only if the column is COL_STATE and the copy with
\* its final commit has succeeded; every transaction of the copy precedes
\* the bloom transaction, one migrate call issues at most one bloom
\* transaction, none for another column or after a failed copy, and an Err
\* of generate_bloom is the Err migrate returns.
C13_HookOrderAndScope ==
    /\ (runs >= 1) = (col = COL_STATE /\ CopyDone)
    /\ \A i \in BloomWrites : \A j \in CopyWrites : j < i
    /\ runs <= 1 => Cardinality(BloomWrites) <= 1
    /\ (col # COL_STATE \/ failure \in {"flush", "commit"}) => BloomWrites = {}
    /\ (runs = 1 /\ pc = "done" /\ failure \in BloomFailures) => IsErr(result)
    /\ (runs = 1 /\ pc = "done" /\ result = "Ok") => failure = "none"

C13_Witness ==
    /\ runs = 1 /\ pc = "done" /\ result = "Ok"
    /\ Cardinality(CopyWrites) >= 2
    /\ Cardinality(BloomWrites) = 1

\* the accumulator's transactions the destination refused / accepted
FailedCopyWrites == {i \in CopyWrites : ~writes[i].ok}

FlushedCopyWrites == {i \in CopyWrites : writes[i].ok}

\* C14 (accumulator write failure): when a transaction issued by the
\* accumulator fails, migrate returns that error, the failed transaction is
\* the last operation on the destination (no insert, no write and no bloom
\* rebuild follows), and the destination column holds exactly the sub-batches
\* flushed before it, each of them whole: the first T * (number of flushed
\* sub-batches) entries of the source column in storage order.
C14_AccumulatorWriteFailure ==
    FailedCopyWrites # {}
        => /\ pc = "done"
           /\ result = "Store"
           /\ FailedCopyWrites = {Len(writes)}
           /\ BloomUntouched
           /\ runs = 0
           /\ idx = config * Cardinality(FlushedCopyWrites)
                      + Cardinality(writes[Len(writes)].tx.col)
           /\ progress = idx
           /\ dest.col = Put(dest0.col,
                             {InsertArgs(MigrateItems(source)[n]) :
                                n \in 1..(config * Cardinality(FlushedCopyWrites))})
           /\ \A i \in FlushedCopyWrites : writes[i].tx.col \subseteq dest.col

C14_Witness ==
    /\ pc = "done"
    /\ FailedCopyWrites # {}
    /\ FlushedCopyWrites # {}
    /\ idx < Len(MigrateItems(source))
    /\ dest.col # dest0.col

\* the store after the transactions ws, in order, each applied whole when
\* it succeeded and not at all when it failed
RECURSIVE Replay(_, _)
Replay(d, ws) ==
    IF ws = <<>> THEN d
    ELSE Replay(IF Head(ws).ok THEN Database_write(d, Head(ws).tx) ELSE d, Tail(ws))

\* this call of generate_bloom has drained its journal and handed it to
\* dest.write
BloomWriteIssued ==
    /\ pc = "done"
    /\ bloom_journal # NoJournal
    /\ result # "Custom: Failed to commit bloom"

\* C15 (atomic bloom commit): every call of generate_bloom issues at most
\* one bloom transaction, and it carries all segments of the drained
\* journal; the destination is at all times the result of whole
\* transactions, so it holds all of these segments or is as it was before
\* the rebuild; when the write fails generate_bloom returns Err and the
\* destination's bloom is unchanged.
C15_AtomicBloomCommit ==
    /\ Cardinality(BloomWrites) <= runs
    /\ dest = Replay(dest0, writes)
    /\ BloomWriteIssued
         => /\ Len(writes) \in BloomWrites
            /\ writes[Len(writes)].tx.bloom = bloom_journal.entries
            /\ writes[Len(writes)].tx.hash_functions = bloom_journal.hash_functions
            /\ writes[Len(writes)].tx.col = {}
            /\ Cardinality(BloomWrites) = runs
            /\ IF writes[Len(writes)].ok
               THEN /\ result = "Ok"
                    /\ bloom_journal.entries \subseteq dest.bloom
               ELSE /\ result = "Store"
                    /\ dest = Replay(dest0, SubSeq(writes, 1, Len(writes) - 1))
                    /\ runs = 1 => /\ dest.bloom = dest0.bloom
                                   /\ dest.hash_functions = dest0.hash_functions

C15_Witness ==
    /\ BloomWriteIssued
    /\ ~writes[Len(writes)].ok
    /\ Cardinality(bloom_journal.entries) >= 2
    /\ dest0 = FreshDest
    /\ dest.bloom = {}
    /\ dest.col # {}

\* the bit positions derived from the account keys of the trie's leaves
LeafBits(s) == UNION {BloomPositions(H256_from_slice(K)) : K \in s.trie.leaves}

\* the segments that hold at least one of the bits, with those bits
TouchedSegments(bits) == {<<p \div SegBits, SegmentBits(bits, p \div SegBits)>> : p \in bits}

\* C16 (exact reconstruction): after generate_bloom has returned Ok for a
\* head whose header and trie exist, the bits set in the filter are exactly
\* the union of the positions derived from the leaves' account keys, and the
\* drained journal and the transaction written hold exactly the segments
\* with at least one such bit; the result is a function of the source alone,
\* whatever the destination held before.
C16_ExactReconstruction ==
    (pc = "done" /\ result = "Ok" /\ state_root = "root")
        => /\ bloom.bits = LeafBits(source)
           /\ bloom_journal.entries = TouchedSegments(LeafBits(source))
           /\ writes[Len(writes)].tx.bloom = TouchedSegments(LeafBits(source))
           /\ visited = source.trie.leaves

C16_Witness ==
    /\ pc = "done" /\ result = "Ok" /\ state_root = "root"
    /\ runs = 1
    /\ dest0 = UsedDest
    /\ Cardinality(source.trie.leaves) >= 2
    /\ ~(EntryBits(dest0.bloom) \subseteq LeafBits(source))
    /\ \E e \in dest0.bloom : \A f \in bloom_journal.entries : f[1] # e[1]
    /\ \E i \in 0..((NumBits - 1) \div SegBits) :
         \A f \in bloom_journal.entries : f[1] # i

\* the keys of a set of pairs
KeysOf(ps) == {p[1] : p \in ps}

\* C17 (bounded buffer): the accumulator never holds more than T entries,
\* and between two inserts fewer than T: an insert that makes the buffer
\* reach T writes it as one transaction of T entries and clears it, so
\* during the copy the buffer holds idx mod T entries after idx \div T
\* transactions; after the final commit the buffer is empty, and no key is
\* in two transactions or in a transaction and the buffer.
C17_BoundedBuffer ==
    /\ Cardinality(batch) <= config
    /\ Cardinality(batch) < config
    /\ pc = "copy" => /\ Cardinality(batch) = idx % config
                      /\ Cardinality(CopyWrites) = idx \div config
                      /\ \A i \in CopyWrites : Cardinality(writes[i].tx.col) = config
    /\ \A i \in CopyWrites : Cardinality(writes[i].tx.col) \in 1..config
    /\ CopyDone => batch = {}
    /\ \A i \in CopyWrites :
         /\ KeysOf(writes[i].tx.col) \cap KeysOf(batch) = {}
         /\ \A j \in CopyWrites :
              i # j => KeysOf(writes[i].tx.col) \cap KeysOf(writes[j].tx.col) = {}

C17_Witness ==
    /\ pc = "copy"
    /\ config = 2
    /\ idx = 3
    /\ Cardinality(batch) = 1
    /\ Cardinality(CopyWrites) = 1
    /\ Cardinality(writes[1].tx.col) = 2

\* C18 (source is read-only): no step of migrate or generate_bloom, on any
\* path, changes the source store; the destination changes only by a
\* transaction written to it, and by exactly that transaction; the keys the
\* trie scan yields and sets are leaves of the trie in the source store.
C18_SourceReadOnly ==
    [][/\ source' = source
       /\ dest' # dest
            => /\ Len(writes') = Len(writes) + 1
               /\ writes'[Len(writes')].ok
               /\ dest' = Database_write(dest, writes'[Len(writes')].tx)
       /\ visited' \subseteq source.trie.leaves
       /\ \A i \in DOMAIN scan' : scan'[i].ok => scan'[i].key \in source.trie.leaves
      ]_vars

C18_Witness ==
    /\ pc = "done" /\ result = "Ok"
    /\ dest0 = UsedDest
    /\ CopyWrites # {}
    /\ BloomWrites # {}
    /\ Cardinality(visited) >= 2
    /\ source.col # EmptyFn

\* migrate has returned Ok or an Err
Returned == pc = "done" /\ (result = "Ok" \/ IsErr(result))

\* C19 (termination without retries): every call of migrate ends by
\* returning Ok or an Err; the loop of the copy moves forward one entry per
\* insert and ticks once per entry, the trie is opened once per call of
\* generate_bloom and its items are consumed one by one in a single forward
\* pass, a failed write is the last operation on the destination, and nothing
\* is done after an Err has been returned.
C19_TerminationNoRetry ==
    /\ (pc # "done") ~> Returned
    /\ [][/\ idx' \in {idx, idx + 1}
          /\ progress' - progress = idx' - idx
          /\ runs' = runs => tpos' \in {tpos, tpos + 1}
          /\ tpos' = tpos + 1 => scan' = scan
          /\ (scan' # scan /\ scan' # <<>>) => (pc = "open" /\ pc' = "scan")
          /\ pc' = "open" => pc = "header"
          /\ \A i \in DOMAIN writes' :
               ~writes'[i].ok => (i = Len(writes') /\ pc' = "done" /\ IsErr(result'))
          /\ pc = "done" => (result = "Ok" /\ dest' = dest /\ writes' = writes)
         ]_vars

====
